---------------------------- MODULE Spec2Model ----------------------------
(***************************************************************************)
(* A model of the reckon index benchmark: DB.py (create_connection),       *)
(* decorators.py (get_execution_time) and basic_index_performance.py (the  *)
(* SQL helpers, create_rows, find_value, metrics and the main script).     *)
(*                                                                         *)
(* The database engine is modelled by what the SQL statements the helpers  *)
(* send do to the one table the program touches, test_table, and to the    *)
(* index test_table_value_idx on its value column.  psycopg2's             *)
(* `with conn:` block is a transaction: committed on a normal exit, rolled *)
(* back when a statement raises; it leaves the connection open.            *)
(***************************************************************************)
EXTENDS Integers, Sequences, FiniteSets, TLC

(***************************************************************************)
(* Bounds of the model.  The main script's row counts (1000 .. 10_000_000) *)
(* and experiment counts (25, 25, 15, 15, 5) are scaled down to ranges.    *)
(***************************************************************************)
MaxRows == 3
MaxExperiments == 2
NumCalls == 2
PageSize == 2
MaxTableRows == 3

(***************************************************************************)
(* Python values that reach create_connection: None, a str or an int.      *)
(***************************************************************************)
None == [t |-> "none", s |-> "", n |-> 0]
PyStr(x) == [t |-> "str", s |-> x, n |-> 0]
PyInt(k) == [t |-> "int", s |-> "", n |-> k]

\* Python truthiness: None, "" and 0 are false.
Truthy(v) == (v.t = "str" /\ v.s # "") \/ (v.t = "int" /\ v.n # 0)

\* `a or b`
Or(a, b) == IF Truthy(a) THEN a ELSE b

\* A faulty variant of getenv: an empty variable counts as unset.
getenv_empty_is_unset(env, name, default) ==
    IF Truthy(env[name]) THEN env[name] ELSE default

\* os.getenv(name, default): the variable's value when it is set (the empty
\* string included), the default otherwise.  An unset variable is None.
getenv(env, name, default) ==
    IF env[name] # None THEN env[name] ELSE default

\* create_connection's parameter resolution and the connect call.  `ok` is
\* whether psycopg2.connect succeeds; an OperationalError is caught, printed,
\* and the function returns connection = None.
create_connection(args, env, ok) ==
    [passed |-> [database |-> Or(args.db_name, getenv(env, "DB_NAME", PyStr("postgres"))),
                 user     |-> Or(args.db_user, getenv(env, "DB_USER", PyStr("postgres"))),
                 password |-> Or(args.db_password, getenv(env, "DB_PASSWORD", PyStr("postgres"))),
                 host     |-> Or(args.db_host, getenv(env, "DB_HOST", PyStr("localhost"))),
                 port     |-> Or(args.db_port, getenv(env, "DB_PORT", PyInt(5432)))],
     conn   |-> IF ok THEN "open" ELSE "none",
     raised |-> FALSE,
     printed |-> IF ok THEN "Connection to PostgreSQL DB successful"
                       ELSE "The error occurred"]

(***************************************************************************)
(* The database: test_table (its rows' values in id order) and its index.  *)
(***************************************************************************)
NoTable == [exists |-> FALSE, rows |-> <<>>, idx |-> FALSE]

\* DROP TABLE IF EXISTS test_table: the table goes, and its index with it.
DropTableIfExists(d) == NoTable

\* CREATE TABLE test_table (id serial PRIMARY KEY, value INTEGER)
CreateTable(d) ==
    IF d.exists THEN [err |-> "DuplicateTable", db |-> d]
    ELSE [err |-> "", db |-> [exists |-> TRUE, rows |-> <<>>, idx |-> FALSE]]

\* CREATE TABLE IF NOT EXISTS test_table (...)
CreateTableIfNotExists(d) ==
    IF d.exists THEN d ELSE [exists |-> TRUE, rows |-> <<>>, idx |-> FALSE]

\* CREATE INDEX test_table_value_idx ON test_table (value)
CreateIndex(d) ==
    IF ~d.exists THEN [err |-> "UndefinedTable", db |-> d]
    ELSE IF d.idx THEN [err |-> "DuplicateIndex", db |-> d]
    ELSE [err |-> "", db |-> [d EXCEPT !.idx = TRUE]]

\* DROP INDEX IF EXISTS test_table_value_idx
DropIndexIfExists(d) == [d EXCEPT !.idx = FALSE]

\* INSERT INTO test_table (value) VALUES ...
Insert(d, vals) ==
    IF ~d.exists THEN [err |-> "UndefinedTable", db |-> d]
    ELSE [err |-> "", db |-> [d EXCEPT !.rows = d.rows \o vals]]

\* The ids of the rows SELECT * FROM test_table WHERE VALUE=v returns.
SelectIds(d, v) == {k \in 1..Len(d.rows) : d.rows[k] = v}

\* One statement on the database: the error it raises ("" for none), the
\* database after it and what a SELECT found.
Exec(d, s) ==
    CASE s.op = "DROP TABLE IF EXISTS" ->
           [err |-> "", db |-> DropTableIfExists(d), sel |-> {}]
      [] s.op = "CREATE TABLE" ->
           [err |-> CreateTable(d).err, db |-> CreateTable(d).db, sel |-> {}]
      [] s.op = "CREATE TABLE IF NOT EXISTS" ->
           [err |-> "", db |-> CreateTableIfNotExists(d), sel |-> {}]
      [] s.op = "CREATE INDEX" ->
           [err |-> CreateIndex(d).err, db |-> CreateIndex(d).db, sel |-> {}]
      [] s.op = "DROP INDEX IF EXISTS" ->
           [err |-> "", db |-> DropIndexIfExists(d), sel |-> {}]
      [] s.op = "INSERT" ->
           [err |-> Insert(d, s.vals).err, db |-> Insert(d, s.vals).db, sel |-> {}]
      [] s.op = "SELECT" ->
           IF ~d.exists THEN [err |-> "UndefinedTable", db |-> d, sel |-> {}]
           ELSE [err |-> "", db |-> d, sel |-> SelectIds(d, s.vals[1])]

Stmt(op) == [op |-> op, vals |-> <<>>]
StmtV(op, vals) == [op |-> op, vals |-> vals]

\* cur.execute of stmts[k..] in order, stopping at the first statement that
\* raises.  f is the position of the statement the environment makes fail
\* (a lost connection, a full disk): none when f is not a position.
\* n counts the statements sent.
RECURSIVE ExecFrom(_, _, _, _, _)
ExecFrom(d, stmts, k, f, sel) ==
    IF k > Len(stmts) THEN [err |-> "", db |-> d, n |-> Len(stmts), sel |-> sel]
    ELSE IF k = f THEN [err |-> "OperationalError", db |-> d, n |-> k, sel |-> {}]
    ELSE CHOOSE out \in
             {IF r.err # "" THEN [err |-> r.err, db |-> r.db, n |-> k, sel |-> {}]
              ELSE ExecFrom(r.db, stmts, k + 1, f, r.sel) : r \in {Exec(d, stmts[k])}} : TRUE

\* A faulty variant of WithConn: no transaction around the statements (autocommit),
\* so what ran before a failing statement stays, and the session is left in
\* a transaction.
WithConnNoTransaction(c, d, stmts, f) ==
    IF c = "none" THEN [conn |-> c, txn |-> "idle", db |-> d, err |-> "AttributeError", n |-> 0, sel |-> {}]
    ELSE IF c = "closed" THEN [conn |-> c, txn |-> "idle", db |-> d, err |-> "InterfaceError", n |-> 0, sel |-> {}]
    ELSE CHOOSE out \in
             {[conn |-> c, txn |-> IF r.err = "" THEN "intrans" ELSE "inerror",
               db |-> r.db, err |-> r.err, n |-> r.n, sel |-> r.sel]
                  : r \in {ExecFrom(d, stmts, 1, f, {})}} : TRUE

\* A faulty variant of WithConn: leaving the block closes the connection.
WithConnClosing(c, d, stmts, f) ==
    IF c = "none" THEN [conn |-> c, txn |-> "idle", db |-> d, err |-> "AttributeError", n |-> 0, sel |-> {}]
    ELSE IF c = "closed" THEN [conn |-> c, txn |-> "idle", db |-> d, err |-> "InterfaceError", n |-> 0, sel |-> {}]
    ELSE CHOOSE out \in
             {[conn |-> "closed", txn |-> "idle", db |-> IF r.err = "" THEN r.db ELSE d,
               err |-> r.err, n |-> r.n, sel |-> r.sel]
                  : r \in {ExecFrom(d, stmts, 1, f, {})}} : TRUE

\* with conn: with conn.cursor() as cur: cur.execute(...) ...
\* On None the block raises before anything is sent; on a closed connection
\* conn.cursor() raises.  Otherwise the statements run in one transaction:
\* commit on a normal exit, rollback when a statement raised, and the error
\* goes on to the caller.  The connection stays open.
WithConn(c, d, stmts, f) ==
    IF c = "none" THEN [conn |-> c, txn |-> "idle", db |-> d, err |-> "AttributeError", n |-> 0, sel |-> {}]
    ELSE IF c = "closed" THEN [conn |-> c, txn |-> "idle", db |-> d, err |-> "InterfaceError", n |-> 0, sel |-> {}]
    ELSE CHOOSE out \in
             {[conn |-> c, txn |-> "idle", db |-> IF r.err = "" THEN r.db ELSE d,
               err |-> r.err, n |-> r.n, sel |-> r.sel]
                  : r \in {ExecFrom(d, stmts, 1, f, {})}} : TRUE


(***************************************************************************)
(* The helpers of basic_index_performance.py.  Each takes the connection   *)
(* handle c, the database d and f, the position of the statement of this   *)
(* call that the environment makes fail (none when f is not a position).   *)
(***************************************************************************)

\* A faulty variant of create_table: CREATE TABLE IF NOT EXISTS and no DROP.
create_table_if_not_exists(c, d, f) ==
    WithConn(c, d, <<Stmt("CREATE TABLE IF NOT EXISTS")>>, f)

create_table(c, d, f) ==
    WithConn(c, d, <<Stmt("DROP TABLE IF EXISTS"), Stmt("CREATE TABLE")>>, f)

drop_table(c, d, f) ==
    WithConn(c, d, <<Stmt("DROP TABLE IF EXISTS")>>, f)

insert_single_row(c, d, value, f) ==
    WithConn(c, d, <<StmtV("INSERT", <<value>>)>>, f)

\* execute_values' pages: argslist cut into runs of page_size, one INSERT
\* statement each; no statement at all for an empty list.
RECURSIVE Paginate(_, _)
Paginate(values, page_size) ==
    IF Len(values) = 0 THEN <<>>
    ELSE IF Len(values) <= page_size THEN <<StmtV("INSERT", values)>>
    ELSE <<StmtV("INSERT", SubSeq(values, 1, page_size))>>
         \o Paginate(SubSeq(values, page_size + 1, Len(values)), page_size)

insert_multiple_rows(c, d, values, batch_size, f) ==
    CHOOSE out \in {WithConn(c, d, stmts, f) : stmts \in {Paginate(values, batch_size)}} : TRUE

find_rows(c, d, value, f) ==
    WithConn(c, d, <<StmtV("SELECT", <<value>>)>>, f)

create_index(c, d, f) ==
    WithConn(c, d, <<Stmt("CREATE INDEX")>>, f)

drop_index(c, d, f) ==
    WithConn(c, d, <<Stmt("DROP INDEX IF EXISTS")>>, f)

\* list(range(num_rows)): 0, 1, ..., num_rows - 1
Range(num_rows) == [k \in 1..num_rows |-> k - 1]

\* A faulty variant of create_rows: the index is created whatever db_index says.
create_rows_always_index(c, d, num_rows, db_index, f) ==
    CHOOSE out \in
      {IF r1.err # "" THEN r1
       ELSE CHOOSE out2 \in
              {IF r2.err # "" THEN [r2 EXCEPT !.n = r1.n + r2.n]
               ELSE CHOOSE out3 \in
                      {[r3 EXCEPT !.n = r1.n + r2.n + r3.n]
                         : r3 \in {insert_multiple_rows(r2.conn, r2.db, Range(num_rows),
                                                        PageSize, f - r1.n - r2.n)}} : TRUE
                 : r2 \in {create_index(r1.conn, r1.db, f - r1.n)}} : TRUE
         : r1 \in {create_table(c, d, f)}} : TRUE

\* create_rows (undecorated): create_table, create_index when db_index, then
\* insert_multiple_rows of range(num_rows): three transactions, the first
\* error ending the call.  n is the number of statements the call sent.
create_rows(c, d, num_rows, db_index, f) ==
    CHOOSE out \in
      {IF r1.err # "" THEN r1
       ELSE CHOOSE out2 \in
              {IF r2.err # "" THEN [r2 EXCEPT !.n = r1.n + r2.n]
               ELSE CHOOSE out3 \in
                      {[r3 EXCEPT !.n = r1.n + r2.n + r3.n]
                         : r3 \in {insert_multiple_rows(r2.conn, r2.db, Range(num_rows),
                                                        PageSize, f - r1.n - r2.n)}} : TRUE
                 : r2 \in {IF db_index THEN create_index(r1.conn, r1.db, f - r1.n)
                      ELSE [r1 EXCEPT !.n = 0]}} : TRUE
         : r1 \in {create_table(c, d, f)}} : TRUE

\* find_value (undecorated): find_rows(conn, value=(value,))
find_value(c, d, value, f) == find_rows(c, d, value, f)

\* A faulty variant of get_execution_time: the wrapper catches what the method
\* raises and returns the time all the same.
get_execution_time_swallowing(r) == [raised |-> FALSE, t |-> r.n * 1000]

\* get_execution_time's wrapper around a call with outcome r: what the
\* method raises passes through (no value is returned then), else the
\* elapsed time in ms.  perf_counter is a logical clock that ticks once per
\* statement sent.
get_execution_time(r) == [raised |-> r.err # "", t |-> r.n * 1000]

\* statistics.mean raises StatisticsError on an empty list.
MeanDefined(xs) == Len(xs) >= 1


\* random.randint(a, b): any integer of a..b, both ends included; raises
\* ValueError when the range is empty.
randint(a, b) == a..b

(***************************************************************************)
(* State.                                                                  *)
(***************************************************************************)
VARIABLES
    pc,                 \* where the script is
    conn,               \* the handle: "unset", "none" (None), "open", "closed"
    txn,                \* the session's transaction status after the last helper
    opens, closes,      \* connections opened, conn.close() calls made
    callArgs, callEnv,  \* create_connection's arguments and the environment
    passed,             \* the keyword arguments psycopg2.connect was given
    printed,            \* what create_connection printed
    db,                 \* the committed database
    nstmts,             \* SQL statements sent so far
    error,              \* the uncaught exception that ended the run ("" for none)
    calls,              \* metrics calls started
    num_rows, num_experiments, i,
    write_times_with_index, write_times_without_index,
    find_time_with_index, find_time_without_index,
    lastSelect,         \* the last lookup of metrics, as the database ran it
    lastCall            \* the last helper call made directly: its input and outcome

vars == <<pc, conn, txn, opens, closes, callArgs, callEnv, passed, printed, db,
          nstmts, error, calls, num_rows, num_experiments, i,
          write_times_with_index, write_times_without_index,
          find_time_with_index, find_time_without_index, lastSelect, lastCall>>

connVars == <<conn, opens, callArgs, callEnv, passed, printed>>
loopVars == <<calls, num_rows, num_experiments>>
listVars == <<write_times_with_index, write_times_without_index,
              find_time_with_index, find_time_without_index>>

NoArgs == [db_name |-> None, db_user |-> None, db_password |-> None,
           db_host |-> None, db_port |-> None]
NoEnv == [DB_NAME |-> None, DB_USER |-> None, DB_PASSWORD |-> None,
          DB_HOST |-> None, DB_PORT |-> None]
NoPassed == [database |-> None, user |-> None, password |-> None,
             host |-> None, port |-> None]
NoSelect == [list |-> "none", value |-> 0, found |-> FALSE, indexed |-> FALSE]
NoCall == [op |-> "none", before |-> NoTable, err |-> "", arg |-> 0, f |-> 0, n |-> 0]

\* What the database may hold when the program starts: no test_table, or one
\* left behind, with or without rows and index.
InitDBs ==
    {NoTable} \cup {[exists |-> TRUE, rows |-> r, idx |-> b] :
                       r \in {<<>>, <<7>>, <<7, 7>>}, b \in BOOLEAN}

\* The environments the main script is run in.
MainEnvs ==
    {NoEnv,
     [DB_NAME |-> PyStr("bench"), DB_USER |-> PyStr("me"), DB_PASSWORD |-> PyStr(""),
      DB_HOST |-> PyStr("db"), DB_PORT |-> PyStr("6543")]}

\* The positions at which a statement of one create_rows call can fail; 0 and
\* positions past the call's last statement are no failure.
FailPoints == 0..(3 + MaxRows)

InitCommon ==
    /\ txn = "idle"
    /\ opens = 0 /\ closes = 0
    /\ callArgs = NoArgs /\ callEnv = NoEnv /\ passed = NoPassed /\ printed = ""
    /\ db \in InitDBs
    /\ nstmts = 0
    /\ error = ""
    /\ calls = 0 /\ num_rows = 0 /\ num_experiments = 0 /\ i = 0
    /\ write_times_with_index = <<>> /\ write_times_without_index = <<>>
    /\ find_time_with_index = <<>> /\ find_time_without_index = <<>>
    /\ lastSelect = NoSelect
    /\ lastCall = NoCall

(***************************************************************************)
(* The main script of basic_index_performance.py.                          *)
(***************************************************************************)
Init == pc = "start" /\ conn = "unset" /\ InitCommon

\* An uncaught exception leaves metrics and the script.
Abort(err) == pc' = "aborted" /\ error' = err

\* conn = create_connection()
Connect ==
    /\ pc = "start"
    /\ \E env \in MainEnvs, ok \in BOOLEAN :
         LET r == create_connection(NoArgs, env, ok)
         IN  /\ conn' = r.conn
             /\ opens' = opens + (IF ok THEN 1 ELSE 0)
             /\ callArgs' = NoArgs /\ callEnv' = env
             /\ passed' = r.passed /\ printed' = r.printed
             /\ IF r.raised THEN Abort("OperationalError")
                ELSE pc' = "main" /\ UNCHANGED error
    /\ UNCHANGED <<txn, closes, db, nstmts, loopVars, i, listVars,
                   lastSelect, lastCall>>

\* metrics(conn, num_rows, num_experiments): the four lists start empty and
\* the loop is entered, or skipped when range(num_experiments) is empty.
MetricsCall ==
    /\ pc = "main" /\ calls < NumCalls
    /\ \E nr \in 1..MaxRows, ne \in 0..MaxExperiments :
         /\ num_rows' = nr /\ num_experiments' = ne
         /\ pc' = IF ne > 0 THEN "create_with_index" ELSE "averages"
    /\ calls' = calls + 1
    /\ i' = 0
    /\ write_times_with_index' = <<>> /\ write_times_without_index' = <<>>
    /\ find_time_with_index' = <<>> /\ find_time_without_index' = <<>>
    /\ UNCHANGED <<connVars, txn, closes, db, nstmts, error, lastSelect, lastCall>>

\* t = create_rows(conn, db_index=True, num_rows=num_rows); append
CreateRowsWithIndex ==
    /\ pc = "create_with_index"
    /\ \E f \in FailPoints : \E r \in {create_rows(conn, db, num_rows, TRUE, f)} :
         LET w == get_execution_time(r)
         IN  /\ conn' = r.conn /\ txn' = r.txn /\ db' = r.db
             /\ nstmts' = nstmts + r.n
             /\ IF w.raised
                THEN Abort(r.err) /\ UNCHANGED write_times_with_index
                ELSE /\ write_times_with_index' = Append(write_times_with_index, w.t)
                     /\ pc' = "find_with_index" /\ UNCHANGED error
    /\ UNCHANGED <<opens, closes, callArgs, callEnv, passed, printed, loopVars, i,
                   write_times_without_index, find_time_with_index,
                   find_time_without_index, lastSelect, lastCall>>

\* t = find_value(conn, random.randint(1, num_rows)); append
FindWithIndex ==
    /\ pc = "find_with_index"
    /\ IF randint(1, num_rows) = {}
       THEN Abort("ValueError")
            /\ UNCHANGED <<conn, txn, nstmts, find_time_with_index, lastSelect>>
       ELSE \E value \in randint(1, num_rows), f \in 0..1 :
            \E r \in {find_value(conn, db, value, f)} :
              LET w == get_execution_time(r)
              IN  /\ conn' = r.conn /\ txn' = r.txn
                  /\ nstmts' = nstmts + r.n
                  /\ IF w.raised
                     THEN Abort(r.err) /\ UNCHANGED <<find_time_with_index, lastSelect>>
                     ELSE /\ find_time_with_index' = Append(find_time_with_index, w.t)
                          /\ lastSelect' = [list |-> "find_time_with_index", value |-> value,
                                            found |-> r.sel # {}, indexed |-> db.idx]
                          /\ pc' = "create_without_index" /\ UNCHANGED error
    /\ UNCHANGED <<opens, closes, callArgs, callEnv, passed, printed, db, loopVars, i,
                   write_times_with_index, write_times_without_index,
                   find_time_without_index, lastCall>>

\* A faulty variant of CreateRowsWithoutIndex: the time is appended to
\* write_times_with_index.
CreateRowsWithoutIndexWrongList ==
    /\ pc = "create_without_index"
    /\ \E f \in FailPoints : \E r \in {create_rows(conn, db, num_rows, FALSE, f)} :
         LET w == get_execution_time(r)
         IN  /\ conn' = r.conn /\ txn' = r.txn /\ db' = r.db
             /\ nstmts' = nstmts + r.n
             /\ IF w.raised
                THEN Abort(r.err) /\ UNCHANGED write_times_with_index
                ELSE /\ write_times_with_index' = Append(write_times_with_index, w.t)
                     /\ pc' = "find_without_index" /\ UNCHANGED error
    /\ UNCHANGED <<opens, closes, callArgs, callEnv, passed, printed, loopVars, i,
                   write_times_without_index, find_time_with_index,
                   find_time_without_index, lastSelect, lastCall>>

\* t = create_rows(conn, num_rows=num_rows, db_index=False); append
CreateRowsWithoutIndex ==
    /\ pc = "create_without_index"
    /\ \E f \in FailPoints : \E r \in {create_rows(conn, db, num_rows, FALSE, f)} :
         LET w == get_execution_time(r)
         IN  /\ conn' = r.conn /\ txn' = r.txn /\ db' = r.db
             /\ nstmts' = nstmts + r.n
             /\ IF w.raised
                THEN Abort(r.err) /\ UNCHANGED write_times_without_index
                ELSE /\ write_times_without_index' = Append(write_times_without_index, w.t)
                     /\ pc' = "find_without_index" /\ UNCHANGED error
    /\ UNCHANGED <<opens, closes, callArgs, callEnv, passed, printed, loopVars, i,
                   write_times_with_index, find_time_with_index,
                   find_time_without_index, lastSelect, lastCall>>

\* t = find_value(conn, random.randint(1, num_rows)); append; next iteration,
\* or the averages when range(num_experiments) is exhausted.
FindWithoutIndex ==
    /\ pc = "find_without_index"
    /\ IF randint(1, num_rows) = {}
       THEN Abort("ValueError")
            /\ UNCHANGED <<conn, txn, nstmts, find_time_without_index, lastSelect, i>>
       ELSE \E value \in randint(1, num_rows), f \in 0..1 :
            \E r \in {find_value(conn, db, value, f)} :
              LET w == get_execution_time(r)
              IN  /\ conn' = r.conn /\ txn' = r.txn
                  /\ nstmts' = nstmts + r.n
                  /\ IF w.raised
                     THEN Abort(r.err)
                          /\ UNCHANGED <<find_time_without_index, lastSelect, i>>
                     ELSE /\ find_time_without_index' = Append(find_time_without_index, w.t)
                          /\ lastSelect' = [list |-> "find_time_without_index", value |-> value,
                                            found |-> r.sel # {}, indexed |-> db.idx]
                          /\ i' = i + 1
                          /\ pc' = IF i + 1 < num_experiments
                                   THEN "create_with_index" ELSE "averages"
                          /\ UNCHANGED error
    /\ UNCHANGED <<opens, closes, callArgs, callEnv, passed, printed, db, loopVars,
                   write_times_with_index, write_times_without_index,
                   find_time_with_index, lastCall>>

\* The four mean(...) calls and the prints after the loop; metrics returns.
Averages ==
    /\ pc = "averages"
    /\ IF /\ MeanDefined(write_times_with_index)
          /\ MeanDefined(write_times_without_index)
          /\ MeanDefined(find_time_with_index)
          /\ MeanDefined(find_time_without_index)
       THEN pc' = "main" /\ UNCHANGED error
       ELSE Abort("StatisticsError")
    /\ UNCHANGED <<connVars, txn, closes, db, nstmts, loopVars, i, listVars,
                   lastSelect, lastCall>>

\* conn.close(), after the last metrics call
Close ==
    /\ pc = "main" /\ calls = NumCalls
    /\ IF conn = "none"
       THEN Abort("AttributeError") /\ UNCHANGED <<conn, closes>>
       ELSE conn' = "closed" /\ closes' = closes + 1 /\ pc' = "done" /\ UNCHANGED error
    /\ UNCHANGED <<txn, opens, callArgs, callEnv, passed, printed, db, nstmts,
                   loopVars, i, listVars, lastSelect, lastCall>>

Next ==
    \/ Connect
    \/ MetricsCall
    \/ CreateRowsWithIndex
    \/ FindWithIndex
    \/ CreateRowsWithoutIndex
    \/ FindWithoutIndex
    \/ Averages
    \/ Close

Spec == Init /\ [][Next]_vars

\* The script is one sequential thread: it takes its next step whenever it
\* has one.
FairSpec == Spec /\ WF_vars(Next)


(***************************************************************************)
(* The helpers called directly, in any order, on a usable connection: the  *)
(* module's functions as a caller other than metrics may use them.         *)
(***************************************************************************)
InitAPI == pc = "api" /\ conn = "open" /\ InitCommon

\* The outcome r of helper op, called with arg (and f), becomes the state.
Called(op, arg, f, res) ==
    \E r \in {res} :
    /\ conn' = r.conn /\ txn' = r.txn /\ db' = r.db
    /\ lastCall' = [op |-> op, before |-> db, err |-> r.err, arg |-> arg, f |-> f,
                    n |-> r.n]
    /\ UNCHANGED <<pc, opens, closes, callArgs, callEnv, passed, printed, nstmts,
                   error, loopVars, i, listVars, lastSelect>>

CallCreateTable ==
    /\ pc = "api"
    /\ \E f \in 0..2 : Called("create_table", 0, f, create_table(conn, db, f))

CallDropTable ==
    /\ pc = "api"
    /\ \E f \in 0..1 : Called("drop_table", 0, f, drop_table(conn, db, f))

CallInsertSingleRow ==
    /\ pc = "api" /\ Len(db.rows) < MaxTableRows
    /\ \E value \in 0..1, f \in 0..1 :
         Called("insert_single_row", value, f, insert_single_row(conn, db, value, f))

CallInsertMultipleRows ==
    /\ pc = "api"
    /\ \E k \in 0..MaxRows, f \in 0..MaxRows :
         /\ Len(db.rows) + k <= MaxTableRows
         /\ Called("insert_multiple_rows", k, f,
                   insert_multiple_rows(conn, db, Range(k), PageSize, f))

CallFindRows ==
    /\ pc = "api"
    /\ \E value \in 0..MaxRows, f \in 0..1 :
         Called("find_rows", value, f, find_rows(conn, db, value, f))

CallCreateIndex ==
    /\ pc = "api"
    /\ \E f \in 0..1 : Called("create_index", 0, f, create_index(conn, db, f))

CallDropIndex ==
    /\ pc = "api"
    /\ \E f \in 0..1 : Called("drop_index", 0, f, drop_index(conn, db, f))

CallCreateRows ==
    /\ pc = "api"
    /\ \E nr \in 0..MaxRows, db_index \in BOOLEAN, f \in FailPoints :
         /\ nr <= MaxTableRows
         /\ Called(IF db_index THEN "create_rows_index" ELSE "create_rows_no_index",
                   nr, f, create_rows(conn, db, nr, db_index, f))

NextAPI ==
    \/ CallCreateTable
    \/ CallDropTable
    \/ CallInsertSingleRow
    \/ CallInsertMultipleRows
    \/ CallFindRows
    \/ CallCreateIndex
    \/ CallDropIndex
    \/ CallCreateRows

SpecAPI == InitAPI /\ [][NextAPI]_vars

(***************************************************************************)
(* create_connection called once with any arguments in any environment.    *)
(***************************************************************************)
NameArgs == {None, PyStr(""), PyStr("arg")}
PortArgs == {None, PyInt(0), PyInt(6543)}
EnvValues == {None, PyStr(""), PyStr("env")}

InitConn == pc = "conn_start" /\ conn = "unset" /\ InitCommon /\ db = NoTable

CallCreateConnection ==
    /\ pc = "conn_start"
    /\ \E args \in [db_name : NameArgs, db_user : NameArgs, db_password : NameArgs,
                    db_host : NameArgs, db_port : PortArgs],
          env \in [DB_NAME : EnvValues, DB_USER : EnvValues, DB_PASSWORD : EnvValues,
                   DB_HOST : EnvValues, DB_PORT : EnvValues],
          ok \in BOOLEAN :
         LET r == create_connection(args, env, ok)
         IN  /\ conn' = r.conn
             /\ opens' = opens + (IF ok THEN 1 ELSE 0)
             /\ callArgs' = args /\ callEnv' = env
             /\ passed' = r.passed /\ printed' = r.printed
    /\ pc' = "conn_done"
    /\ UNCHANGED <<txn, closes, db, nstmts, error, loopVars, i, listVars,
                   lastSelect, lastCall>>

NextConn == CallCreateConnection

SpecConn == InitConn /\ [][NextConn]_vars


(***************************************************************************)
(* The claims.                                                             *)
(***************************************************************************)
Lists == <<write_times_with_index, write_times_without_index,
           find_time_with_index, find_time_without_index>>
Lens == [k \in 1..4 |-> Len(Lists[k])]
Helpers == {"create_table", "drop_table", "insert_single_row", "insert_multiple_rows",
            "find_rows", "create_index", "drop_index"}

\* C1 (as claimed): every value metrics looks up is the value of a row that
\* is in test_table when the lookup runs.
C1_LookupValueIsInTable ==
    lastSelect.list # "none" => lastSelect.found

\* C2 (as claimed): when the main script has finished (conn.close() done),
\* test_table no longer exists.
C2_TableDroppedWhenDone ==
    pc = "done" => ~db.exists

\* C3: when the connection could not be established, create_connection has
\* printed the error and returned None without raising; no SQL statement is
\* ever sent, no timing is ever recorded, the connection is never closed, and
\* a metrics call that enters its loop ends in the AttributeError of the first
\* create_table, in its first iteration.
C3_FailedConnectionAborts ==
    conn = "none" =>
        /\ printed = "The error occurred"
        /\ nstmts = 0
        /\ Lens = [k \in 1..4 |-> 0]
        /\ closes = 0
        /\ calls <= 1 /\ i = 0
        /\ pc \in {"main", "create_with_index", "averages", "aborted"}
        /\ (pc = "main" => calls = 0)
        /\ (pc = "aborted" /\ num_experiments >= 1 => error = "AttributeError")

C3_Witness ==
    /\ conn = "none" /\ pc = "aborted" /\ error = "AttributeError"
    /\ calls = 1 /\ num_experiments = 2 /\ nstmts = 0

\* C4: at most one connection is opened, and it is opened before the first
\* metrics call; statements are only ever sent on it while it is open (no
\* helper closes it); it is closed at most once, and only when the last
\* metrics call has returned; a run that finishes has opened one connection
\* and closed it once.
C4_OneConnection ==
    /\ opens <= 1 /\ closes <= 1
    /\ (calls >= 1 => conn # "unset")
    /\ (nstmts > 0 => opens = 1)
    /\ (conn = "open" => opens = 1 /\ closes = 0)
    /\ (conn = "closed" <=> pc = "done")
    /\ (closes = 1 <=> pc = "done")
    /\ (pc = "done" => opens = 1 /\ calls = NumCalls)
    /\ error # "InterfaceError"

C4_Witness ==
    pc = "done" /\ conn = "closed" /\ opens = 1 /\ closes = 1 /\ nstmts >= 8


\* What create_connection resolves a parameter to when the explicit argument
\* wins whenever one is given (is not None).
GivenElseEnv(arg, envval, default) ==
    IF arg # None THEN arg ELSE IF envval # None THEN envval ELSE default

\* ... and when it wins only if it is truthy (neither None, "" nor 0).
TruthyElseEnv(arg, envval, default) ==
    IF Truthy(arg) THEN arg ELSE IF envval # None THEN envval ELSE default

\* C5 (as claimed): each parameter passed to the client is the explicit
\* argument if one was given (empty or zero included), else the environment
\* variable if set, else the default.
C5_ExplicitArgumentWins ==
    pc = "conn_done" =>
        /\ passed.host = GivenElseEnv(callArgs.db_host, callEnv.DB_HOST, PyStr("localhost"))
        /\ passed.port = GivenElseEnv(callArgs.db_port, callEnv.DB_PORT, PyInt(5432))
        /\ passed.database = GivenElseEnv(callArgs.db_name, callEnv.DB_NAME, PyStr("postgres"))
        /\ passed.user = GivenElseEnv(callArgs.db_user, callEnv.DB_USER, PyStr("postgres"))
        /\ passed.password =
               GivenElseEnv(callArgs.db_password, callEnv.DB_PASSWORD, PyStr("postgres"))

\* C5 (amended): each parameter passed to the client is the explicit argument
\* if it is truthy (not None, not empty, not zero), else the environment
\* variable's value if it is set (the empty string included), else the
\* default.
C5_TruthyArgumentWins ==
    pc = "conn_done" =>
        /\ passed.host = TruthyElseEnv(callArgs.db_host, callEnv.DB_HOST, PyStr("localhost"))
        /\ passed.port = TruthyElseEnv(callArgs.db_port, callEnv.DB_PORT, PyInt(5432))
        /\ passed.database = TruthyElseEnv(callArgs.db_name, callEnv.DB_NAME, PyStr("postgres"))
        /\ passed.user = TruthyElseEnv(callArgs.db_user, callEnv.DB_USER, PyStr("postgres"))
        /\ passed.password =
               TruthyElseEnv(callArgs.db_password, callEnv.DB_PASSWORD, PyStr("postgres"))

\* An empty password argument is replaced by the default, a zero port by the
\* empty DB_PORT, a given host is kept.
C5_Witness ==
    /\ pc = "conn_done"
    /\ callArgs.db_password = PyStr("") /\ callEnv.DB_PASSWORD = None
    /\ passed.password = PyStr("postgres")
    /\ callArgs.db_port = PyInt(0) /\ callEnv.DB_PORT = PyStr("")
    /\ passed.port = PyStr("")
    /\ callArgs.db_host = PyStr("arg") /\ callEnv.DB_HOST = PyStr("env")
    /\ passed.host = PyStr("arg")

\* C6 (as claimed): after create_rows(conn, num_rows, ...) returns, the table
\* holds exactly num_rows rows, with the values 1, ..., num_rows.
C6_RowsAreOneToNumRows ==
    lastCall.op \in {"create_rows_index", "create_rows_no_index"} /\ lastCall.err = ""
        => db.exists /\ db.rows = [k \in 1..lastCall.arg |-> k]

\* The lengths of the four lists (write with, write without, find with, find
\* without) at each point of iteration i of the loop.
LensAt(p) ==
    CASE p = "create_with_index"    -> <<i, i, i, i>>
      [] p = "find_with_index"      -> <<i + 1, i, i, i>>
      [] p = "create_without_index" -> <<i + 1, i, i + 1, i>>
      [] p = "find_without_index"   -> <<i + 1, i + 1, i + 1, i>>
      [] p = "averages"             -> <<i, i, i, i>>
      [] OTHER                      -> Lens

C7_LoopInvariant ==
    /\ i <= num_experiments
    /\ Lens = LensAt(pc)
    /\ (pc \in {"create_with_index", "find_with_index", "create_without_index",
                "find_without_index"} => i < num_experiments)
    /\ (pc = "averages" => i = num_experiments)
    /\ (error = "StatisticsError" => num_experiments = 0 /\ Lens = <<0, 0, 0, 0>>)
    /\ (pc = "aborted" /\ conn # "none" /\ error # "OperationalError"
            => error = "StatisticsError")

\* The steps of an iteration follow each other in the order create with index,
\* lookup, create without index, lookup, and the averages are computed (metrics
\* returns) exactly when num_experiments >= 1.
C7_StepOrder ==
    /\ (pc = "create_with_index" => pc' \in {"find_with_index", "aborted"})
    /\ (pc = "find_with_index" => pc' \in {"create_without_index", "aborted"})
    /\ (pc = "create_without_index" => pc' \in {"find_without_index", "aborted"})
    /\ (pc = "find_without_index" => pc' \in {"create_with_index", "averages", "aborted"})
    /\ (pc = "averages" => pc' = IF num_experiments >= 1 THEN "main" ELSE "aborted")

\* The steps metrics has left in the current call, and the script in all.
StepsLeftInCall ==
    CASE pc = "create_with_index"    -> 4 * (num_experiments - i) + 1
      [] pc = "find_with_index"      -> 4 * (num_experiments - i)
      [] pc = "create_without_index" -> 4 * (num_experiments - i) - 1
      [] pc = "find_without_index"   -> 4 * (num_experiments - i) - 2
      [] pc = "averages"             -> 1
      [] OTHER                       -> 0

StepsLeft ==
    CASE pc \in {"done", "aborted"} -> 0
      [] pc = "start" -> (NumCalls + 1) * (4 * MaxExperiments + 3) + 1
      [] OTHER -> (NumCalls - calls) * (4 * MaxExperiments + 3) + StepsLeftInCall + 1

\* C7: the script comes to an end, every step bringing it nearer (StepsLeft
\* is a natural number that each step decreases); with a usable
\* connection it is cut short only by a statement the database fails or by
\* num_experiments = 0, whose empty lists make the averages fail; each metrics
\* call runs exactly num_experiments iterations, each in the order create with
\* index, lookup, create without index, lookup, and where the averages are
\* computed each of the four lists holds num_experiments entries.
C7_RunsToCompletion ==
    /\ []C7_LoopInvariant
    /\ [][C7_StepOrder]_vars
    /\ [](StepsLeft >= 0)
    /\ [][StepsLeft' < StepsLeft]_vars
    /\ <>(pc \in {"done", "aborted"})

C7_Witness ==
    /\ pc = "averages" /\ calls = NumCalls /\ num_experiments = MaxExperiments
    /\ Lens = [k \in 1..4 |-> MaxExperiments] /\ i = MaxExperiments

\* C8: after create_table returns, test_table exists, is empty and has no
\* index, whatever was there before.
C8_CreateTableGivesEmptyTable ==
    lastCall.op = "create_table" /\ lastCall.err = ""
        => db.exists /\ db.rows = <<>> /\ ~db.idx

C8_Witness ==
    /\ lastCall.op = "create_table" /\ lastCall.err = ""
    /\ lastCall.before.exists /\ Len(lastCall.before.rows) = 2 /\ lastCall.before.idx
    /\ db.exists /\ db.rows = <<>>

\* C9: a lookup timed into find_time_with_index runs with the index on value
\* in place, one timed into find_time_without_index runs with none, and
\* CREATE INDEX never meets an index of its name.
C9_IndexMatchesTheHalf ==
    /\ (pc = "find_with_index" => db.exists /\ db.idx)
    /\ (pc = "find_without_index" => db.exists /\ ~db.idx)
    /\ (lastSelect.list = "find_time_with_index" => lastSelect.indexed)
    /\ (lastSelect.list = "find_time_without_index" => ~lastSelect.indexed)
    /\ error # "DuplicateIndex"

C9_Witness ==
    /\ calls = 2 /\ i = 1 /\ pc = "create_with_index"
    /\ lastSelect.list = "find_time_without_index" /\ ~lastSelect.indexed
    /\ db.exists /\ ~db.idx

\* C10: a helper leaves no transaction open; when a statement of it raises,
\* the database is as it was before the call, the statements after the
\* failing one are not sent, none is sent again, and the caller gets the error.
C10_HelpersAreTransactions ==
    /\ txn = "idle"
    /\ (lastCall.op \in Helpers /\ lastCall.err # "" => db = lastCall.before)
    /\ (lastCall.op \in Helpers /\ lastCall.err = "OperationalError"
            => lastCall.n = lastCall.f)

\* The CREATE of create_table failed on a table with rows and an index: the
\* DROP before it is undone.
C10_Witness ==
    /\ lastCall.op = "create_table" /\ lastCall.f = 2
    /\ lastCall.err = "OperationalError"
    /\ lastCall.before.exists /\ Len(lastCall.before.rows) = 2 /\ lastCall.before.idx
    /\ db = lastCall.before

=============================================================================
